---- MODULE Spec2Model ----
(***************************************************************************)
(* The notebook notebooks/plot_credit_default.ipynb as a state machine.    *)
(* The state is the kernel's namespace (data, X, y, rng, feature_names,    *)
(* X_train, ...), the input spreadsheet, the console output and the        *)
(* history of executed cells.  Each code cell is one action.               *)
(*                                                                         *)
(* Numbers.  A cell of a table is a record [num, den, root] that stands    *)
(* for num/den, or for the square root of num/den when root is TRUE.       *)
(* Spreadsheet integers are [num |-> v, den |-> 1, root |-> FALSE].        *)
(* np.mean and np.std are computed step by step in exact arithmetic; the   *)
(* rounding of float64 is not modelled.  max_features is in thousandths.   *)
(***************************************************************************)
EXTENDS Integers, Sequences, FiniteSets, TLC

VARIABLES sheet, stream, In, err, data, X, y, rng, feature_names,
          X_train, X_test, y_train, y_test, rf, scoring_rf, stdout

vars == <<sheet, stream, In, err, data, X, y, rng, feature_names,
          X_train, X_test, y_train, y_test, rf, scoring_rf, stdout>>

(* ---------------------------------------------------------------- bounds *)
MaxRows == 3
MaxVal == 1
MaxDraw == 2
MaxExec == 5
MaxSessRows == 2
MaxTieGap == 1

(* ------------------------------------------------------------- constants *)
Seed == 1
LabelColumn == "default payment next month"
IdColumns == <<"ID">>
old_PAY == <<"PAY_3", "PAY_4", "PAY_5", "PAY_6">>
old_BILL_AMT == <<"BILL_AMT3", "BILL_AMT4", "BILL_AMT5", "BILL_AMT6">>
old_PAY_AMT == <<"PAY_AMT3", "PAY_AMT4", "PAY_AMT5", "PAY_AMT6">>

\* The column names of the sheet the notebook was run on: the recorded
\* feature list with the renaming and the derivation undone.
ExpectedColumns ==
    <<"ID", "LIMIT_BAL", "SEX", "EDUCATION", "MARRIAGE", "AGE", "PAY_0", "PAY_2">>
    \o old_PAY
    \o <<"BILL_AMT1", "BILL_AMT2">> \o old_BILL_AMT
    \o <<"PAY_AMT1", "PAY_AMT2">> \o old_PAY_AMT
    \o <<LabelColumn>>

\* The order in which a "run all" executes the code cells.
CellOrder == <<"load", "shuffle", "derive", "split", "fit">>

(* --------------------------------------------------------------- helpers *)
Range(s) == {s[i] : i \in 1..Len(s)}

Reverse(s) == [i \in 1..Len(s) |-> s[Len(s) + 1 - i]]

Perms(n) == {p \in [1..n -> 1..n] : \A i, j \in 1..n : p[i] = p[j] => i = j}

RECURSIVE SumSeq(_)
SumSeq(s) == IF s = <<>> THEN 0 ELSE Head(s) + SumSeq(Tail(s))

Undefined == [kind |-> "undef", columns |-> <<>>, rows |-> <<>>]

\* A pandas DataFrame: column labels and, per row, the values in column order.
Frame(cols, rws) == [kind |-> "frame", columns |-> cols, rows |-> rws]

\* A numpy array: rows (2-D) or values (1-D) without labels.
Array(rws) == [kind |-> "array", columns |-> <<>>, rows |-> rws]

IntVal(v) == [num |-> v, den |-> 1, root |-> FALSE]

HasColumn(f, c) == \E j \in 1..Len(f.columns) : f.columns[j] = c

ColumnIndex(cols, c) == CHOOSE j \in 1..Len(cols) : cols[j] = c

\* frame[c] : the values of column c, one per row.
Column(f, c) == [i \in 1..Len(f.rows) |-> f.rows[i][ColumnIndex(f.columns, c)]]

KeepIndices(cols, drop) == SelectSeq([j \in 1..Len(cols) |-> j],
                                     LAMBDA j : cols[j] \notin drop)

\* frame.drop(cs, axis=1) / del frame[c] for labels that are columns (the
\* cells test KeyError first): the labels and the values of the columns go
\* together, the other columns keep their relative order.
DropColumns(f, drop) ==
    LET keep == KeepIndices(f.columns, drop)
    IN  Frame([k \in 1..Len(keep) |-> f.columns[keep[k]]],
              [i \in 1..Len(f.rows) |->
                  [k \in 1..Len(keep) |-> f.rows[i][keep[k]]]])

\* Looking up labels cs raises KeyError when one of them is no column.
KeyError(f, cs) == \E c \in cs : ~HasColumn(f, c)

(* ------------------------------------------------- the load cell (48-51) *)
\* Variant: the label column stays among the features.
LoadFeaturesAll(f) == f

\* dataset.data : the sheet without the label column.
LoadFeatures(f) == DropColumns(f, {LabelColumn})

\* dataset.target : the label column as an array.
LoadTarget(f) == Array(Column(f, LabelColumn))

(* ---------------------------------------------- the shuffle cell (67-71) *)
Unset == <<0>>

\* Variant: a generator that exists already is kept as it is, not reseeded.
RandomStateKept(seed) ==
    IF rng.kind = "rng" THEN rng ELSE [kind |-> "rng", seed |-> seed, pos |-> 0]

\* np.random.RandomState(seed) : a generator at the start of seed's stream.
RandomState(seed) == [kind |-> "rng", seed |-> seed, pos |-> 0]

\* The permutations a generator in state r can yield for n rows.  The
\* generator is deterministic: what seed Seed yields at a position is
\* chosen when first drawn and is the same at every later draw.
Draws(r, n) == IF stream[r.pos] = Unset THEN Perms(n) ELSE {stream[r.pos]}

\* The generator after one draw (positions past MaxDraw are merged).
Advance(r) == [r EXCEPT !.pos = IF r.pos < MaxDraw THEN r.pos + 1 ELSE MaxDraw]

\* a[indices] : numpy indexing by an index array.
Take(a, indices) == [i \in 1..Len(indices) |-> a[indices[i]]]

\* Variant: the features permuted, the labels left in place.
ShuffleFeaturesOnly(a, b, perm) == [data |-> Take(a, perm), y |-> b]

\* sklearn.utils.shuffle(a, b) : one index permutation, applied to both.
Shuffle(a, b, perm) == [data |-> Take(a, perm), y |-> Take(b, perm)]

(* ----------------------------------- the feature-engineering cell (87-104) *)
\* Variant: no column is renamed.
RenameNothing(f, old, new) == f

\* frame.rename(columns={old: new}) : a label that is absent is ignored.
Rename(f, old, new) ==
    Frame([j \in 1..Len(f.columns) |->
              IF f.columns[j] = old THEN new ELSE f.columns[j]], f.rows)

\* np.mean(x) : add.reduce(x) / len(x).
Mean(xs) == [num |-> SumSeq([i \in 1..Len(xs) |-> xs[i].num]),
             den |-> Len(xs), root |-> FALSE]

\* Variant: the sample standard deviation (ddof = 1).
StdSample(xs) ==
    LET n == Len(xs)
        S == SumSeq([i \in 1..n |-> xs[i].num])
        sq == [i \in 1..n |-> (n * xs[i].num - S) * (n * xs[i].num - S)]
    IN  [num |-> SumSeq(sq), den |-> n * n * (n - 1), root |-> TRUE]

\* np.std(x) : sqrt(mean(abs(x - mean(x)) ** 2)), ddof = 0.  With S the sum
\* and n the length, x[i] - mean = (n*x[i] - S)/n; the squares are over n*n
\* and their mean is over n*n*n.
Std(xs) ==
    LET n == Len(xs)
        S == SumSeq([i \in 1..n |-> xs[i].num])
        sq == [i \in 1..n |-> (n * xs[i].num - S) * (n * xs[i].num - S)]
    IN  [num |-> SumSeq(sq), den |-> n * n * n, root |-> TRUE]

Aggregate(fn, xs) == IF fn = "mean" THEN Mean(xs) ELSE Std(xs)

\* frame[cols].apply(lambda x: fn(x), axis=1) : fn over each row's values of
\* the columns cols, in the order of cols.
ApplyRows(f, cols, fn) ==
    [i \in 1..Len(f.rows) |->
        Aggregate(fn, [k \in 1..Len(cols) |->
                          f.rows[i][ColumnIndex(f.columns, cols[k])]])]

\* frame[name] = vals : a new column goes last, an existing one is replaced.
SetColumn(f, name, vals) ==
    IF HasColumn(f, name)
    THEN Frame(f.columns,
               [i \in 1..Len(f.rows) |->
                   [f.rows[i] EXCEPT ![ColumnIndex(f.columns, name)] = vals[i]]])
    ELSE Frame(Append(f.columns, name),
               [i \in 1..Len(f.rows) |-> Append(f.rows[i], vals[i])])

\* The five assignments of the cell, in order.
DerivedSteps ==
    << [name |-> "PAY_old_mean", cols |-> old_PAY, fn |-> "mean"],
       [name |-> "BILL_AMT_old_mean", cols |-> old_BILL_AMT, fn |-> "mean"],
       [name |-> "BILL_AMT_old_std", cols |-> old_BILL_AMT, fn |-> "std"],
       [name |-> "PAY_AMT_old_mean", cols |-> old_PAY_AMT, fn |-> "mean"],
       [name |-> "PAY_AMT_old_std", cols |-> old_PAY_AMT, fn |-> "std"] >>

DerivedColumns == [k \in 1..Len(DerivedSteps) |-> DerivedSteps[k].name]

\* Variant: an assignment whose columns are missing is skipped.
RECURSIVE DeriveFromLenient(_, _)
DeriveFromLenient(f, k) ==
    IF k > Len(DerivedSteps) THEN [frame |-> f, err |-> FALSE]
    ELSE LET st == DerivedSteps[k]
         IN  IF KeyError(f, Range(st.cols)) THEN DeriveFromLenient(f, k + 1)
             ELSE DeriveFromLenient(
                      SetColumn(f, st.name, ApplyRows(f, st.cols, st.fn)), k + 1)

\* The assignments from the k-th on; the first whose columns are missing
\* raises KeyError and leaves the assignments before it in place.
RECURSIVE DeriveFrom(_, _)
DeriveFrom(f, k) ==
    IF k > Len(DerivedSteps) THEN [frame |-> f, err |-> FALSE]
    ELSE LET st == DerivedSteps[k]
         IN  IF KeyError(f, Range(st.cols)) THEN [frame |-> f, err |-> TRUE]
             ELSE DeriveFrom(SetColumn(f, st.name, ApplyRows(f, st.cols, st.fn)),
                             k + 1)

\* Variant: the payment-status columns are not dropped.
DroppedColumnsPartial == old_PAY_AMT \o old_BILL_AMT

\* The columns of the final drop.
DroppedColumns == old_PAY_AMT \o old_BILL_AMT \o old_PAY

(* ------------------------------------------------ the split cell (128-136) *)
\* Variant: the midpoint rounded up.
TrainSizeCeil(n) == (n + 1) \div 2

\* int(n_samples / 2)
TrainSize(n) == n \div 2

\* s[lo:hi] for 0 <= lo : a Python slice, clamped to the length.
Slice(s, lo, hi) ==
    LET h == IF hi < Len(s) THEN hi ELSE Len(s)
    IN  IF lo >= h THEN <<>> ELSE SubSeq(s, lo + 1, h)

(* -------------------------------------- the model-selection cell (162-175) *)
\* range(start, stop, step) for step > 0.
PyRange(start, stop, step) ==
    [i \in 1..((stop - start + step - 1) \div step) |-> start + (i - 1) * step]

\* np.linspace(start, stop, num), in thousandths: start + i*step.
Linspace(start, stop, num) ==
    [i \in 1..num |-> start + (i - 1) * ((stop - start) \div (num - 1))]

MaxDepths == PyRange(3, 8, 1)
MaxFeatures == Linspace(100, 1000, 5)

\* ParameterGrid: the candidates in evaluation order, the keys sorted and
\* the last key (max_features) varying fastest.
ParamGrid ==
    [i \in 1..(Len(MaxDepths) * Len(MaxFeatures)) |->
        [max_depth |-> MaxDepths[((i - 1) \div Len(MaxFeatures)) + 1],
         max_features |-> MaxFeatures[((i - 1) % Len(MaxFeatures)) + 1]]]

\* Variant: the first candidate with the lowest mean score.
BestIndexLowest(scores) ==
    CHOOSE i \in 1..Len(scores) :
        /\ \A j \in 1..Len(scores) : scores[i] <= scores[j]
        /\ \A j \in 1..(i - 1) : scores[i] < scores[j]

\* rank_test_AUC.argmin() : the first candidate with the highest mean score.
BestIndex(scores) ==
    CHOOSE i \in 1..Len(scores) :
        /\ \A j \in 1..Len(scores) : scores[j] <= scores[i]
        /\ \A j \in 1..(i - 1) : scores[j] < scores[i]

\* The mean cross-validated AUC tables the search may come up with: one
\* candidate at the top, or two of them at most MaxTieGap apart in the
\* evaluation order, and the others below.
ScoreTables ==
    {[i \in 1..Len(ParamGrid) |-> IF i \in {a, a + g} THEN 1 ELSE 0] :
        a \in 1..Len(ParamGrid), g \in 0..MaxTieGap}

NoFit == [kind |-> "undef", cv_results |-> <<>>, best_index |-> 0,
          best_params |-> [max_depth |-> 0, max_features |-> 0]]

\* GridSearchCV(...) before fit.
Unfitted == [NoFit EXCEPT !.kind = "unfitted"]

\* print(text + str(names)) / print(text % params)
Line(text, names, params) == [text |-> text, names |-> names, params |-> params]

(* ------------------------------------------------------------ the inputs *)
\* The value of row i of the sheet in column c: the identifier counts the
\* rows, every other cell differs from row to row and column to column.
CellValue(i, c) ==
    IF c = "ID" THEN i ELSE 10 * i + ColumnIndex(ExpectedColumns, c)

\* A sheet with the columns cols and one row per label of labs.
SheetOf(cols, labs) ==
    Frame(cols,
          [i \in 1..Len(labs) |->
              [j \in 1..Len(cols) |->
                  IntVal(IF cols[j] = LabelColumn THEN labs[i]
                         ELSE CellValue(i, cols[j]))]])

\* The columns the cells look up by name.
NeededColumns ==
    {LabelColumn, "PAY_0"} \cup Range(IdColumns) \cup Range(DroppedColumns)

Without(cols, c) == SelectSeq(cols, LAMBDA x : x # c)

\* The expected header, the same in another order, and the expected header
\* with one needed column, or two of them, missing.
Schemas ==
    {ExpectedColumns, Reverse(ExpectedColumns)}
    \cup {Without(ExpectedColumns, c) : c \in NeededColumns}
    \cup {Without(Without(ExpectedColumns, LabelColumn), "ID"),
          Without(Without(ExpectedColumns, "ID"), "PAY_3"),
          Without(Without(ExpectedColumns, "PAY_0"), "PAY_AMT6")}

LabelSeqs(n) == UNION {[1..k -> {0, 1}] : k \in 0..n}

StructSheets == {SheetOf(cols, labs) : cols \in Schemas, labs \in LabelSeqs(MaxRows)}

SessionSheets == {SheetOf(ExpectedColumns, labs) : labs \in LabelSeqs(MaxSessRows)}

Groups == {old_PAY, old_BILL_AMT, old_PAY_AMT}

\* Two rows of the expected header; the first row holds the values q in the
\* columns of group g.
NumSheet(g, q) ==
    LET base == SheetOf(ExpectedColumns, <<1, 0>>)
    IN  Frame(base.columns,
              [i \in 1..2 |->
                  [j \in 1..Len(base.columns) |->
                      IF i = 1 /\ base.columns[j] \in Range(g)
                      THEN IntVal(q[ColumnIndex(g, base.columns[j])])
                      ELSE base.rows[i][j]]])

NumSheets == {NumSheet(g, q) : g \in Groups, q \in [1..4 -> (0 - 1)..MaxVal]}

(* ------------------------------------------------------------- the state *)
InitKernel ==
    /\ stream = [p \in 0..MaxDraw |-> Unset]
    /\ In = <<>>
    /\ err = FALSE
    /\ data = Undefined
    /\ X = Undefined
    /\ y = Undefined
    /\ rng = [kind |-> "undef", seed |-> 0, pos |-> 0]
    /\ feature_names = [def |-> FALSE, names |-> <<>>]
    /\ X_train = Undefined
    /\ X_test = Undefined
    /\ y_train = Undefined
    /\ y_test = Undefined
    /\ rf = NoFit
    /\ scoring_rf = [def |-> FALSE, n |-> 0]
    /\ stdout = <<>>

Init == sheet \in StructSheets /\ InitKernel

InitNum == sheet \in NumSheets /\ InitKernel

InitSession == sheet \in SessionSheets /\ InitKernel

\* The kernel records the cell in its history; raised tells whether the
\* cell ended in an uncaught exception.
Executed(cell, raised) == In' = Append(In, cell) /\ err' = raised

(* ------------------------------------------------------------- the cells *)
LoadCell ==
    /\ data' = sheet
    /\ IF KeyError(sheet, {LabelColumn})
       THEN /\ Executed("load", TRUE)
            /\ UNCHANGED <<X, y>>
       ELSE /\ X' = LoadFeatures(sheet)
            /\ y' = LoadTarget(sheet)
            /\ Executed("load", FALSE)
    /\ UNCHANGED <<sheet, stream, rng, feature_names, X_train, X_test,
                   y_train, y_test, rf, scoring_rf, stdout>>

ShuffleCell ==
    LET r == RandomState(Seed)
    IN  /\ IF X.kind = "undef" \/ y.kind = "undef"
           THEN /\ rng' = r
                /\ Executed("shuffle", TRUE)
                /\ UNCHANGED <<stream, data, y>>
           ELSE \E perm \in Draws(r, Len(X.rows)) :
                  LET sh == Shuffle(X.rows, y.rows, perm)
                      fr == Frame(X.columns, sh.data)
                  IN  /\ stream' = [stream EXCEPT ![r.pos] = perm]
                      /\ rng' = Advance(r)
                      /\ y' = Array(sh.y)
                      /\ IF KeyError(fr, Range(IdColumns))
                         THEN data' = fr /\ Executed("shuffle", TRUE)
                         ELSE /\ data' = DropColumns(fr, Range(IdColumns))
                              /\ Executed("shuffle", FALSE)
        /\ UNCHANGED <<sheet, X, feature_names, X_train, X_test, y_train,
                       y_test, rf, scoring_rf, stdout>>

DeriveCell ==
    /\ IF data.kind # "frame"
       THEN Executed("derive", TRUE) /\ UNCHANGED data
       ELSE LET d == DeriveFrom(Rename(data, "PAY_0", "PAY_1"), 1)
            IN  IF d.err
                THEN data' = d.frame /\ Executed("derive", TRUE)
                ELSE /\ data' = DropColumns(d.frame, Range(DroppedColumns))
                     /\ Executed("derive", FALSE)
    /\ UNCHANGED <<sheet, stream, X, y, rng, feature_names, X_train, X_test,
                   y_train, y_test, rf, scoring_rf, stdout>>

SplitCell ==
    /\ IF data.kind # "frame"
       THEN /\ Executed("split", TRUE)
            /\ UNCHANGED <<data, feature_names, stdout, X_train, X_test,
                           y_train, y_test>>
       ELSE LET n_samples == Len(data.rows)
                n_samples_train == TrainSize(n_samples)
            IN  /\ feature_names' = [def |-> TRUE, names |-> data.columns]
                /\ stdout' = Append(stdout,
                       Line("List of variables used to train models : ",
                            data.columns, NoFit.best_params))
                /\ data' = Array(data.rows)
                /\ IF y.kind = "undef"
                   THEN /\ Executed("split", TRUE)
                        /\ UNCHANGED <<X_train, X_test, y_train, y_test>>
                   ELSE /\ y_train' = Array(Slice(y.rows, 0, n_samples_train))
                        /\ y_test' = Array(Slice(y.rows, n_samples_train, Len(y.rows)))
                        /\ X_train' = Array(Slice(data.rows, 0, n_samples_train))
                        /\ X_test' = Array(Slice(data.rows, n_samples_train, n_samples))
                        /\ Executed("split", FALSE)
    /\ UNCHANGED <<sheet, stream, X, y, rng, rf, scoring_rf>>

\* The estimator is cloned (its random_state deep-copied) for every fit, so
\* the cell leaves rng as it is.  Whether the library completes the search
\* on the given rows is the library's own matter: either it raises, or it
\* comes up with a score table.
FitCell ==
    /\ IF rng.kind = "undef"
       THEN Executed("fit", TRUE) /\ UNCHANGED <<rf, scoring_rf, stdout>>
       ELSE IF X_train.kind = "undef" \/ y_train.kind = "undef"
            THEN /\ rf' = Unfitted
                 /\ Executed("fit", TRUE)
                 /\ UNCHANGED <<scoring_rf, stdout>>
            ELSE \/ /\ rf' = Unfitted
                    /\ Executed("fit", TRUE)
                    /\ UNCHANGED <<scoring_rf, stdout>>
                 \/ \E scores \in ScoreTables :
                      LET best == BestIndex(scores)
                      IN  /\ rf' = [kind |-> "fitted", cv_results |-> scores,
                                    best_index |-> best,
                                    best_params |-> ParamGrid[best]]
                          /\ scoring_rf' = [def |-> TRUE, n |-> Len(X_test.rows)]
                          /\ stdout' = Append(stdout,
                                 Line("Random Forest selected parameters : ",
                                      <<>>, ParamGrid[best]))
                          /\ Executed("fit", FALSE)
    /\ UNCHANGED <<sheet, stream, data, X, y, rng, feature_names, X_train,
                   X_test, y_train, y_test>>

(* --------------------------------------------------------------- run all *)
\* "Run all" executes the cells in order and stops at the first that raises.
IsNext(cell) == ~err /\ Len(In) < Len(CellOrder) /\ CellOrder[Len(In) + 1] = cell

RunLoad == IsNext("load") /\ LoadCell
RunShuffle == IsNext("shuffle") /\ ShuffleCell
RunDerive == IsNext("derive") /\ DeriveCell
RunSplit == IsNext("split") /\ SplitCell
RunFit == IsNext("fit") /\ FitCell

Next == RunLoad \/ RunShuffle \/ RunDerive \/ RunSplit \/ RunFit

Spec == Init /\ [][Next]_vars

\* The pipeline up to the split, on sheets with varied numbers.
NextNum == RunLoad \/ RunShuffle \/ RunDerive \/ RunSplit

SpecNum == InitNum /\ [][NextNum]_vars

(* ----------------------------------------------------------- the session *)
\* An interactive session executes any cell at any time, also after a cell
\* that raised.  The session covers the cells that bind data, X, y and rng;
\* the model-selection cell reads them and binds only rf and scoring_rf.
CanExec == Len(In) < MaxExec

ExecLoad == CanExec /\ LoadCell
ExecShuffle == CanExec /\ ShuffleCell
ExecDerive == CanExec /\ DeriveCell
ExecSplit == CanExec /\ SplitCell

NextSession == ExecLoad \/ ExecShuffle \/ ExecDerive \/ ExecSplit

SpecSession == InitSession /\ [][NextSession]_vars

(* ================================================================ claims *)
\* The first k cells of the run have been executed and none of them raised.
Ran(k) == Len(In) >= k /\ (Len(In) = k => ~err)

NRows == Len(sheet.rows)

CellOf(f, i, c) == f.rows[i][ColumnIndex(f.columns, c)]

\* The sheet column a feature column that is not derived comes from.
Origin(c) == IF c = "PAY_1" /\ ~HasColumn(sheet, "PAY_1") THEN "PAY_0" ELSE c

(* ---- C1 ---- *)
\* C1: once the split cell has run, with n the row count and k the number of
\* train rows: k = floor(n/2); positions 1..k of the shuffled rows and of the
\* shuffled labels are the train partition and positions k+1..n the test
\* partition, so the two are disjoint and cover every position exactly once.
C1_SplitPartition ==
    Ran(4) =>
        LET n == NRows
            k == Len(X_train.rows)
        IN  /\ 2 * k <= n /\ n < 2 * k + 2
            /\ Len(data.rows) = n /\ Len(y.rows) = n
            /\ Len(y_train.rows) = k
            /\ Len(X_test.rows) = n - k /\ Len(y_test.rows) = n - k
            /\ \A i \in 1..n :
                 IF i <= k
                 THEN X_train.rows[i] = data.rows[i] /\ y_train.rows[i] = y.rows[i]
                 ELSE /\ X_test.rows[i - k] = data.rows[i]
                      /\ y_test.rows[i - k] = y.rows[i]

C1_Witness == Ran(4) /\ NRows = 3 /\ Len(X_train.rows) = 1 /\ Len(X_test.rows) = 2

(* ---- C2 ---- *)
\* C2: after the shuffle cell there is one permutation p of the loaded rows
\* such that, at every position i, the feature row holds the values of loaded
\* row p[i] and the label is the label of loaded row p[i].
C2_OnePermutation ==
    Len(In) = 2 =>
        /\ Len(data.rows) = NRows /\ Len(y.rows) = NRows
        /\ \E p \in Perms(NRows) :
             \A i \in 1..NRows :
                /\ y.rows[i] = CellOf(sheet, p[i], LabelColumn)
                /\ \A c \in Range(data.columns) :
                      CellOf(data, i, c) = CellOf(sheet, p[i], c)

C2_Witness ==
    /\ Len(In) = 2 /\ ~err /\ NRows = 3
    /\ stream[0] = <<2, 3, 1>>
    /\ Column(sheet, LabelColumn) = <<IntVal(0), IntVal(1), IntVal(1)>>
    /\ y.rows = <<IntVal(1), IntVal(1), IntVal(0)>>

\* The loaded row that ended at position i of the shuffled order.
Src(i) == stream[0][i]

SourceColumns ==
    {"PAY_3", "PAY_4", "PAY_5", "PAY_6",
     "BILL_AMT3", "BILL_AMT4", "BILL_AMT5", "BILL_AMT6",
     "PAY_AMT3", "PAY_AMT4", "PAY_AMT5", "PAY_AMT6"}

FiveDerived ==
    <<"PAY_old_mean", "BILL_AMT_old_mean", "BILL_AMT_old_std",
      "PAY_AMT_old_mean", "PAY_AMT_old_std">>

\* The sum and the sum of squares of loaded row r over the columns cs.
GroupSum(r, cs) == SumSeq([k \in 1..Len(cs) |-> CellOf(sheet, r, cs[k]).num])

GroupSquares(r, cs) ==
    SumSeq([k \in 1..Len(cs) |->
               CellOf(sheet, r, cs[k]).num * CellOf(sheet, r, cs[k]).num])

\* v is the mean of the four values: 4 * v = sum.
IsMeanOf(v, r, cs) == ~v.root /\ v.den > 0 /\ 4 * v.num = v.den * GroupSum(r, cs)

\* v is the population standard deviation of the four values:
\* v >= 0 and 16 * v^2 = 4 * sum of squares - (sum)^2.
IsStdOf(v, r, cs) ==
    LET S == GroupSum(r, cs)
        Q == GroupSquares(r, cs)
    IN  /\ v.root /\ v.den > 0 /\ v.num >= 0
        /\ 16 * v.num = v.den * (4 * Q - S * S)

\* The value v of feature column c is what the pipeline is to hold for
\* loaded row r: the sheet's value, or the aggregate of c's own four columns.
FeatureValueOk(v, r, c) ==
    CASE c = "PAY_old_mean" -> IsMeanOf(v, r, <<"PAY_3", "PAY_4", "PAY_5", "PAY_6">>)
      [] c = "BILL_AMT_old_mean" ->
            IsMeanOf(v, r, <<"BILL_AMT3", "BILL_AMT4", "BILL_AMT5", "BILL_AMT6">>)
      [] c = "BILL_AMT_old_std" ->
            IsStdOf(v, r, <<"BILL_AMT3", "BILL_AMT4", "BILL_AMT5", "BILL_AMT6">>)
      [] c = "PAY_AMT_old_mean" ->
            IsMeanOf(v, r, <<"PAY_AMT3", "PAY_AMT4", "PAY_AMT5", "PAY_AMT6">>)
      [] c = "PAY_AMT_old_std" ->
            IsStdOf(v, r, <<"PAY_AMT3", "PAY_AMT4", "PAY_AMT5", "PAY_AMT6">>)
      [] OTHER -> LET o == Origin(c)
                  IN  \E j \in 1..Len(sheet.columns) :
                         sheet.columns[j] = o /\ v = sheet.rows[r][j]

(* ---- C3 ---- *)
\* C3: a step of the feature-derivation cell that does not raise leaves none
\* of the twelve source columns in the feature table, leaves the five derived
\* columns in it, and leaves the number of rows as it was before the step.
C3_DeriveReplaces ==
    [][(Len(In) = 2 /\ Len(In') = 3 /\ ~err') =>
          /\ data'.kind = "frame"
          /\ Range(data'.columns) \cap SourceColumns = {}
          /\ Range(FiveDerived) \subseteq Range(data'.columns)
          /\ Len(data'.rows) = Len(data.rows)
          /\ \A i \in 1..Len(data'.rows) : Len(data'.rows[i]) = Len(data'.columns)]_vars

C3_Witness ==
    /\ Len(In) = 3 /\ ~err /\ Len(data.rows) = 3
    /\ Range(FiveDerived) \subseteq Range(data.columns)

(* ---- C5 ---- *)
\* C5: when the search has completed, the reported hyperparameters are a grid
\* point (max_depth in 3..7, max_features in {0.1, 0.325, 0.55, 0.775, 1.0}),
\* they are the candidate the scores were recorded for, no candidate of the
\* 25 has a higher mean score, and they are what is printed.
C5_BestInGrid ==
    rf.kind = "fitted" =>
        /\ rf.best_params.max_depth \in {3, 4, 5, 6, 7}
        /\ rf.best_params.max_features \in {100, 325, 550, 775, 1000}
        /\ Len(rf.cv_results) = 25
        /\ Cardinality(Range(ParamGrid)) = 25
        /\ rf.best_index \in 1..25
        /\ ParamGrid[rf.best_index] = rf.best_params
        /\ \A j \in 1..25 : rf.cv_results[j] <= rf.cv_results[rf.best_index]
        /\ stdout[Len(stdout)].params = rf.best_params

\* The run the notebook records: max_depth 7, max_features 0.55, with
\* another candidate scoring as high.
C5_Witness ==
    /\ rf.kind = "fitted"
    /\ rf.best_params = [max_depth |-> 7, max_features |-> 550]
    /\ \E j \in 1..25 : j # rf.best_index /\ rf.cv_results[j] = rf.cv_results[rf.best_index]
    /\ \E j \in 1..25 : rf.cv_results[j] < rf.cv_results[rf.best_index]

(* ---- C6 ---- *)
\* C6: after the feature-derivation cell, in every row each derived column
\* is the aggregate of its own four columns of the loaded row it stems from:
\* the three means satisfy 4 * mean = sum, the two standard deviations
\* satisfy 16 * std^2 = 4 * (sum of squares) - (sum)^2.
C6_DerivedValues ==
    (Len(In) = 3 /\ ~err) =>
        \A i \in 1..Len(data.rows) :
            /\ IsMeanOf(CellOf(data, i, "PAY_old_mean"), Src(i),
                        <<"PAY_3", "PAY_4", "PAY_5", "PAY_6">>)
            /\ IsMeanOf(CellOf(data, i, "BILL_AMT_old_mean"), Src(i),
                        <<"BILL_AMT3", "BILL_AMT4", "BILL_AMT5", "BILL_AMT6">>)
            /\ IsStdOf(CellOf(data, i, "BILL_AMT_old_std"), Src(i),
                       <<"BILL_AMT3", "BILL_AMT4", "BILL_AMT5", "BILL_AMT6">>)
            /\ IsMeanOf(CellOf(data, i, "PAY_AMT_old_mean"), Src(i),
                        <<"PAY_AMT3", "PAY_AMT4", "PAY_AMT5", "PAY_AMT6">>)
            /\ IsStdOf(CellOf(data, i, "PAY_AMT_old_std"), Src(i),
                       <<"PAY_AMT3", "PAY_AMT4", "PAY_AMT5", "PAY_AMT6">>)

\* A row whose payment amounts are -1, 1, 0, 1: sum 1, sum of squares 3,
\* 16 * std^2 = 11; the row was moved by the shuffle.
C6_Witness ==
    /\ Len(In) = 3 /\ ~err
    /\ \E i \in 1..Len(data.rows) :
          /\ Src(i) # i
          /\ [k \in 1..4 |-> CellOf(sheet, Src(i), old_PAY_AMT[k]).num] = <<0 - 1, 1, 0, 1>>
          /\ 4 * CellOf(data, i, "PAY_AMT_old_mean").num
                = CellOf(data, i, "PAY_AMT_old_mean").den
          /\ 16 * CellOf(data, i, "PAY_AMT_old_std").num
                = 11 * CellOf(data, i, "PAY_AMT_old_std").den

(* ---- C7 ---- *)
\* The feature table of the current stage, as labels and rows: X after the
\* load, data from the shuffle on, feature_names with data / X_train / X_test
\* after the split.
C7_NoLabelIn(cols, rws) ==
    /\ LabelColumn \notin Range(cols)
    /\ \A i \in 1..Len(rws) : Len(rws[i]) = Len(cols)

\* C7: from the end of the load cell on, no feature table has the label
\* column: not X, not data after the shuffle and after the derivation, not
\* the printed feature names nor X_train and X_test; and every value of a
\* feature row is the sheet's value of a column other than the label, or the
\* aggregate of four columns other than the label.
C7_LabelExcluded ==
    /\ Ran(1) =>
          /\ C7_NoLabelIn(X.columns, X.rows)
          /\ Len(X.rows) = NRows
          /\ Len(X.columns) = Len(sheet.columns) - 1
          /\ \A j \in 1..Len(X.columns) : \E k \in 1..Len(sheet.columns) :
                /\ X.columns[j] = sheet.columns[k]
                /\ \A i \in 1..NRows : X.rows[i][j] = sheet.rows[i][k]
    /\ (Len(In) >= 2 /\ data.kind = "frame") =>
          /\ C7_NoLabelIn(data.columns, data.rows)
          /\ \A i \in 1..Len(data.rows) : \A c \in Range(data.columns) :
                FeatureValueOk(CellOf(data, i, c), Src(i), c)
    /\ Ran(4) =>
          /\ C7_NoLabelIn(feature_names.names, data.rows)
          /\ C7_NoLabelIn(feature_names.names, X_train.rows)
          /\ C7_NoLabelIn(feature_names.names, X_test.rows)
          /\ stdout[1].names = feature_names.names
          /\ data.rows = X_train.rows \o X_test.rows

C7_Witness ==
    /\ Len(In) = 5 /\ rf.kind = "fitted" /\ NRows = 3
    /\ LabelColumn \notin Range(feature_names.names)
    /\ Len(X_train.rows[1]) = 16

(* ---- C9 ---- *)
\* The names the notebook records as printed by the split cell.
RecordedFeatureNames ==
    <<"LIMIT_BAL", "SEX", "EDUCATION", "MARRIAGE", "AGE", "PAY_1", "PAY_2",
      "BILL_AMT1", "BILL_AMT2", "PAY_AMT1", "PAY_AMT2", "PAY_old_mean",
      "BILL_AMT_old_mean", "BILL_AMT_old_std", "PAY_AMT_old_mean",
      "PAY_AMT_old_std">>

\* The loaded columns without the label, ID and the twelve source columns,
\* in their order, PAY_0 under the name PAY_1.
C9_KeptColumns ==
    LET kept == SelectSeq(sheet.columns,
                    LAMBDA c : c \notin ({"default payment next month", "ID"}
                                          \cup SourceColumns))
    IN  [j \in 1..Len(kept) |-> IF kept[j] = "PAY_0" THEN "PAY_1" ELSE kept[j]]

\* What the split cell is to leave: the feature names, printed, and the
\* two partitions with one value per name in every row, the value of that
\* name's column.
C9_SplitOutput ==
    /\ feature_names.def
    /\ feature_names.names = C9_KeptColumns \o FiveDerived
    /\ stdout[Len(stdout)].names = feature_names.names
    /\ sheet.columns = ExpectedColumns =>
          /\ feature_names.names = RecordedFeatureNames
          /\ Len(feature_names.names) = 16
    /\ \A i \in 1..Len(X_train.rows) : \A j \in 1..Len(feature_names.names) :
          /\ Len(X_train.rows[i]) = Len(feature_names.names)
          /\ FeatureValueOk(X_train.rows[i][j], Src(i), feature_names.names[j])
    /\ \A i \in 1..Len(X_test.rows) : \A j \in 1..Len(feature_names.names) :
          /\ Len(X_test.rows[i]) = Len(feature_names.names)
          /\ FeatureValueOk(X_test.rows[i][j], Src(Len(X_train.rows) + i),
                            feature_names.names[j])

\* C9: a step of the split cell that does not raise prints the kept loaded
\* columns in their order followed by the five derived columns in the order
\* of their assignment; for the expected header these are the 16 recorded
\* names; and the columns of X_train and X_test are these, in this order.
C9_FeatureNames ==
    [][(Len(In) = 3 /\ Len(In') = 4 /\ ~err') => C9_SplitOutput']_vars

C9_Witness ==
    /\ Ran(4) /\ sheet.columns = ExpectedColumns /\ NRows = 3
    /\ feature_names.names[6] = "PAY_1" /\ feature_names.names[16] = "PAY_AMT_old_std"
    /\ Len(X_train.rows) = 1 /\ Len(X_train.rows[1]) = 16

(* ---- C8 ---- *)
Missing(c) == ~HasColumn(sheet, c)

SchemaMismatch ==
    \E c \in {"default payment next month", "ID", "PAY_0"} \cup SourceColumns :
        Missing(c)

SourceMissing == \E c \in SourceColumns : Missing(c)

\* Nothing of the model-selection cell has happened.
NoSelection ==
    /\ rf.kind = "undef" /\ ~scoring_rf.def
    /\ \A k \in 1..Len(stdout) : stdout[k].text # "Random Forest selected parameters : "

\* C8 as stated: with a needed column missing, the load cell raises and the
\* run halts there, so that no later cell is executed.
C8_LoaderFails ==
    (SchemaMismatch /\ Len(In) >= 1) => (In = <<"load">> /\ err /\ NoSelection)

\* C8, amended: the run fails in the cell that first looks the missing
\* column up and halts there.  Without the label column the load cell raises
\* and nothing else runs.  With the label but without ID the load succeeds
\* and the shuffle cell raises, after shuffling.  With label and ID but
\* without one of the twelve source columns the derivation cell raises.  In
\* these cases the split and the model selection never run and no
\* hyperparameters are printed.  A missing PAY_0 raises nothing: the run
\* goes through the split with a feature list that has no PAY_1.
C8_FailsWhereLookedUp ==
    /\ (Missing("default payment next month") /\ Len(In) >= 1) =>
          /\ In = <<"load">> /\ err
          /\ X = Undefined /\ y = Undefined /\ rng.kind = "undef"
    /\ (~Missing("default payment next month") /\ Missing("ID") /\ Len(In) >= 1) =>
          /\ Len(In) = 1 => ~err
          /\ Len(In) >= 2 => (In = <<"load", "shuffle">> /\ err /\ y.kind = "array")
    /\ (~Missing("default payment next month") /\ ~Missing("ID") /\ SourceMissing
            /\ Len(In) >= 1) =>
          /\ Len(In) <= 2 => ~err
          /\ Len(In) >= 3 => (In = <<"load", "shuffle", "derive">> /\ err)
    /\ (Missing("default payment next month") \/ Missing("ID") \/ SourceMissing) =>
          /\ NoSelection
          /\ ~feature_names.def /\ X_train = Undefined /\ stdout = <<>>
    /\ (Missing("PAY_0") /\ ~Missing("default payment next month") /\ ~Missing("ID")
            /\ ~SourceMissing /\ Len(In) <= 4) =>
          /\ ~err
          /\ feature_names.def =>
                ("PAY_1" \notin Range(feature_names.names)
                 /\ Len(feature_names.names) = 15)

\* Without ID the load cell has succeeded and the shuffle cell has raised.
C8_Witness ==
    /\ Missing("ID") /\ In = <<"load", "shuffle">> /\ err
    /\ NRows = 3 /\ X.kind = "frame" /\ data.kind = "frame"

(* ---- C4 ---- *)
\* The last two cells executed are the load cell and then the shuffle cell.
FreshShuffle ==
    Len(In) >= 2 /\ In[Len(In) - 1] = "load" /\ In[Len(In)] = "shuffle"

\* The split cell ran on a freshly loaded and shuffled table at positions
\* k..k+2 of the history and has not run since.
SplitOfRun(k) ==
    /\ k + 2 <= Len(In)
    /\ In[k] = "load" /\ In[k + 1] = "shuffle" /\ In[k + 2] = "split"
    /\ \A m \in (k + 3)..Len(In) : In[m] # "split"

\* C4: every run of the shuffle cell on the freshly loaded table yields the
\* same order, whatever was executed before it: the order seed 1 yields at
\* the start of its stream, for the feature rows and for the labels; and
\* the order is the one an earlier such run in the session produced (kept in
\* the train and test partitions of that run).
C4_SameOrder ==
    FreshShuffle =>
        /\ Len(data.rows) = NRows /\ Len(y.rows) = NRows
        /\ \A i \in 1..NRows :
              /\ y.rows[i] = CellOf(sheet, Src(i), LabelColumn)
              /\ \A c \in Range(data.columns) :
                    CellOf(data, i, c) = CellOf(sheet, Src(i), c)
        /\ \A k \in 1..Len(In) :
              (SplitOfRun(k) /\ k + 4 <= Len(In)) =>
                  /\ data.rows = X_train.rows \o X_test.rows
                  /\ y.rows = y_train.rows \o y_test.rows

\* Two runs in one session: load, shuffle, split, then load and shuffle
\* again; the rows were moved and the labels differ.
C4_Witness ==
    /\ In = <<"load", "shuffle", "split", "load", "shuffle">>
    /\ stream[0] = <<2, 1>>
    /\ y.rows = <<IntVal(1), IntVal(0)>>
    /\ y_train.rows = <<IntVal(1)>> /\ y_test.rows = <<IntVal(0)>>

(* ---- C10 ---- *)
\* The load cell was executed once, first, and only the shuffle cell since.
LoadThenShuffles ==
    /\ Len(In) >= 2 /\ In[1] = "load"
    /\ \A k \in 2..Len(In) : In[k] = "shuffle"

\* C10 as stated: after the load cell and any number k >= 1 of executions of
\* the shuffle cell, the feature row and the label at every position come
\* from the same loaded row, and features and labels are what a single
\* execution of the shuffle cell leaves.
C10_RerunKeepsRows ==
    LoadThenShuffles =>
        /\ \E p \in Perms(NRows) :
              \A i \in 1..NRows :
                 /\ y.rows[i] = CellOf(sheet, p[i], LabelColumn)
                 /\ \A c \in Range(data.columns) :
                       CellOf(data, i, c) = CellOf(sheet, p[i], c)
        /\ \A i \in 1..NRows :
              /\ y.rows[i] = CellOf(sheet, Src(i), LabelColumn)
              /\ \A c \in Range(data.columns) :
                    CellOf(data, i, c) = CellOf(sheet, Src(i), c)

====
